---- MODULE Spec2Model ----
(***************************************************************************)
(* react-native-native-worker: the task queue, worker loop, cancellation   *)
(* and result delivery of the two native modules.                          *)
(*   Android: android/src/main/java/com/nativeworker/NativeWorkerModule.kt *)
(*   iOS:     NativeWorkerModule.swift (src/unnamed/part_001)              *)
(* The variable `platform` selects which module a behaviour runs.  Both    *)
(* modules keep the same fields (taskQueue, activeTasks, isProcessing), so *)
(* the fields are shared; the scheduling state is per platform.            *)
(*   TypeScript wrapper: src/NativeWorker.ts (class NativeWorker), over    *)
(* the native module's promises and the NativeEventEmitter.                *)
(***************************************************************************)
EXTENDS Integers, Sequences, FiniteSets, TLC

\* ---------------------------------------------------------------- bounds
MaxTasks == 2        \* postMessage calls in one behaviour
MaxIds == 1          \* caller-supplied task ids are 1..MaxIds
MaxCallers == 2      \* Android: caller threads inside postMessage/cancelAllTasks at once
MaxSerial == 1       \* iOS: blocks of callers and of the timer waiting on serialQueue
MaxThreads == 2      \* Android: HandlerThreads that can exist
MaxJsCalls == 1      \* wrapper: method calls in one behaviour
MaxSubs == 2         \* wrapper: listener registrations in one behaviour
MaxEmits == 2        \* wrapper: onWorkerMessage events reaching the JS emitter

NoTask == 0          \* null task reference / absent map entry
NoId == 0            \* taskId == null (postMessage without an id)

Handles == 1..MaxTasks
CallerIds == 1..MaxIds
\* UUID.randomUUID() / UUID().uuidString: an id no caller supplies and no other
\* task carries; the task with handle h gets MaxIds + h.
GeneratedId(h) == MaxIds + h
AllIds == 1..(MaxIds + MaxTasks)
Threads == 1..MaxThreads
ProcessOutcomes == {"return", "throw"}

VARIABLES
    platform,      \* "android" or "ios"
    tasks,         \* heap of WorkerTask objects, by handle: [id, cancelled]
    taskQueue,     \* pending queue: sequence of handles
    activeTasks,   \* registry: id -> handle (NoTask when absent)
    isProcessing,  \* the isProcessing flag
    mainQueue,     \* events posted to the main handler / main queue, not yet emitted
    emitted,       \* onWorkerMessage events emitted so far, in order
    \* Android
    workerThread,  \* thread of workerThread/workerHandler, 0 when null
    looper,        \* per thread: Runnables waiting in its looper
    pc,            \* per thread: position inside run()/processNextTask
    cur,           \* per thread: the local `task` of processNextTask
    offering,      \* postMessage calls between activeTasks[id] = task and taskQueue.offer
    clearing,      \* cancelAllTasks calls between the synchronized block and taskQueue.clear
    \* iOS
    processingTimer, \* the repeating timer is scheduled
    serialQueue,   \* blocks waiting on serialQueue, in order
    bg,            \* per handle: position of processTask on backgroundQueue
    \* observation
    enqueued,      \* handles in the order they were appended to taskQueue
    cancelOk,      \* per handle: cancelTask calls that returned true for this task
    cancelQueued,  \* handles whose cancelTask returned true while the task was in taskQueue
    counted,       \* handles counted by some cancelAllTasks call
    afterClear,    \* cancelAllTasks emptied taskQueue and nothing was enqueued since
    lastCount,     \* value resolved by the last cancelAllTasks to return, -1 before any
    stopped,       \* whether stopWorkerThread has run, the tasks enqueued and the events
                   \* emitted before it did
    \* TypeScript wrapper
    nativeCalls,   \* invocations of NativeWorkerNativeModule methods, with their promise
    wrapperCalls,  \* calls of the wrapper's async methods, with their promise
    emitterSubs,   \* subscriptions created by eventEmitter.addListener, in order
    listeners,     \* this.listeners.get("onWorkerMessage"): a subscription or NoSub
    jsEmits,       \* onWorkerMessage events that reached the JS emitter
    swept          \* subscriptions registered before a removeAllListeners that returned

jsVars == <<nativeCalls, wrapperCalls, emitterSubs, listeners, jsEmits, swept>>

vars == <<jsVars, stopped, platform, tasks, taskQueue, activeTasks, isProcessing, mainQueue, emitted,
          workerThread, looper, pc, cur, offering, clearing,
          processingTimer, serialQueue, bg,
          enqueued, cancelOk, cancelQueued, counted, afterClear, lastCount>>

androidVars == <<workerThread, looper, pc, cur, offering, clearing>>
iosVars == <<processingTimer, serialQueue, bg>>
obsVars == <<enqueued, cancelOk, cancelQueued, counted, afterClear, lastCount>>

\* ---------------------------------------------------------------- helpers
Cancelled(h) == tasks[h].cancelled
IdOf(h) == tasks[h].id

\* Mutant of FinalTaskId: the id the caller supplied is ignored.
FinalTaskIdGenerated(taskId, h) == GeneratedId(h)

\* taskId ?: UUID.randomUUID().toString()
FinalTaskId(taskId, h) == IF taskId = NoId THEN GeneratedId(h) ELSE taskId

NewTask(id) == [id |-> id, cancelled |-> FALSE]

\* task.cancelled.set(true) / task.cancel()
SetCancelled(ts, h) == [ts EXCEPT ![h].cancelled = TRUE]

\* activeTasks.values
ActiveValues == {activeTasks[i] : i \in AllIds} \ {NoTask}

\* Mutant of CancelEach: every task's flag is set to whether the registry holds
\* it, which clears the flag of a task cancelled earlier.
CancelEachReset(ts, hs) ==
    [h \in DOMAIN ts |-> [ts[h] EXCEPT !.cancelled = (h \in hs)]]

\* Mutant of CancelEach: cancelAllTasks empties the registry without flagging.
CancelEachNone(ts, hs) == ts

\* activeTasks.values.forEach { it.cancelled.set(true) }
RECURSIVE CancelEach(_, _)
CancelEach(ts, hs) ==
    IF hs = {} THEN ts
    ELSE LET h == CHOOSE x \in hs : TRUE
         IN CancelEach(SetCancelled(ts, h), hs \ {h})

EmptyRegistry == [i \in AllIds |-> NoTask]

Event(h, kind) == [task |-> h, taskId |-> IdOf(h), kind |-> kind]

\* ---------------------------------------------------------------- initial state
Init ==
    /\ platform \in {"android", "ios"}
    /\ tasks = <<>>
    /\ taskQueue = <<>>
    /\ activeTasks = EmptyRegistry
    /\ isProcessing = FALSE
    /\ mainQueue = <<>>
    /\ emitted = <<>>
    /\ workerThread = 0
    /\ looper = [t \in Threads |-> 0]
    /\ pc = [t \in Threads |-> "none"]
    /\ cur = [t \in Threads |-> NoTask]
    /\ offering = {}
    /\ clearing = <<>>
    /\ processingTimer = FALSE
    /\ serialQueue = <<>>
    /\ bg = [h \in Handles |-> "none"]
    /\ enqueued = <<>>
    /\ cancelOk = [h \in Handles |-> 0]
    /\ cancelQueued = {}
    /\ counted = {}
    /\ afterClear = FALSE
    /\ lastCount = -1
    /\ stopped = [ran |-> FALSE, tasks |-> {}, emitted |-> 0]
    /\ nativeCalls = <<>>
    /\ wrapperCalls = <<>>
    /\ emitterSubs = <<>>
    /\ listeners = 0
    /\ jsEmits = 0
    /\ swept = {}

\* ---------------------------------------------------------------- delivery
\* The Runnable of mainHandler.post / the block of DispatchQueue.main.async:
\* builds the params and emits onWorkerMessage.  The main queue is FIFO.
MainEmit ==
    /\ mainQueue # <<>>
    /\ emitted' = Append(emitted, Head(mainQueue))
    /\ mainQueue' = Tail(mainQueue)
    /\ UNCHANGED <<jsVars, stopped, platform, tasks, taskQueue, activeTasks, isProcessing>>
    /\ UNCHANGED <<androidVars, iosVars, obsVars>>

\* ================================================================ Android
\* Mutant of MonitorFree: processNextTask calls processMessage inside
\* synchronized(activeTasks), so the worker holds the monitor while it processes.
MonitorHeldWhileProcessing == \A t \in Threads : pc[t] # "processing"

\* synchronized(activeTasks): a thread holds the monitor for the length of one
\* synchronized block, which is one step here; processNextTask calls
\* processMessage before its synchronized block, so between steps no thread holds
\* the monitor.
MonitorFree == TRUE

\* Calls of postMessage / cancelAllTasks that have started and not returned.
PendingCalls == Cardinality(offering) + Len(clearing)

\* Mutant of StartWorkerThreadGuard: startWorkerThread without its null check.
StartWorkerThreadAlways == TRUE

\* startWorkerThread: if (workerThread == null)
StartWorkerThreadGuard == workerThread = 0

\* initialize() -> startWorkerThread() -> startProcessingLoop(): a HandlerThread is
\* started and the loop Runnable is posted to its looper.  A call that finds
\* workerThread set does nothing.
Initialize ==
    /\ platform = "android"
    /\ StartWorkerThreadGuard
    /\ \E t \in Threads :
        /\ pc[t] = "none"
        /\ \A u \in Threads : u < t => pc[u] # "none"
        /\ workerThread' = t
        /\ pc' = [pc EXCEPT ![t] = "idle"]
        /\ looper' = [looper EXCEPT ![t] = 1]
    /\ UNCHANGED <<jsVars, stopped, platform, tasks, taskQueue, activeTasks, isProcessing, mainQueue, emitted>>
    /\ UNCHANGED <<cur, offering, clearing, iosVars, obsVars>>

\* Mutant of Repost: run() does not post itself again.
RepostNone(lp) == lp

\* workerHandler?.postDelayed(this, 10)
Repost(lp) == IF workerThread = 0 THEN lp ELSE [lp EXCEPT ![workerThread] = @ + 1]

\* run() starts on thread t; processNextTask: val task = taskQueue.poll()
WorkerPoll(t) ==
    /\ platform = "android"
    /\ pc[t] = "idle"
    /\ looper[t] > 0
    /\ looper' = [looper EXCEPT ![t] = @ - 1]
    /\ IF taskQueue = <<>>
         THEN /\ cur' = [cur EXCEPT ![t] = NoTask]
              /\ UNCHANGED taskQueue
         ELSE /\ cur' = [cur EXCEPT ![t] = Head(taskQueue)]
              /\ taskQueue' = Tail(taskQueue)
    /\ pc' = [pc EXCEPT ![t] = "polled"]
    /\ UNCHANGED <<jsVars, stopped, platform, tasks, activeTasks, isProcessing, mainQueue, emitted>>
    /\ UNCHANGED <<workerThread, offering, clearing, iosVars, obsVars>>

\* Mutant of ClaimGuard: the cancelled flag is not looked at.
ClaimGuardNoFlag(h) == h # NoTask

\* if (task != null && !task.cancelled.get())
ClaimGuard(h) == h # NoTask /\ ~Cancelled(h)

\* Mutant of WorkerClaim: the else branch recomputes the flag from the queue.
WorkerClaimRecompute(t) ==
    /\ platform = "android"
    /\ pc[t] = "polled"
    /\ IF ClaimGuard(cur[t])
         THEN /\ isProcessing' = TRUE
              /\ pc' = [pc EXCEPT ![t] = "processing"]
              /\ UNCHANGED <<cur, looper>>
         ELSE /\ isProcessing' = (taskQueue # <<>>)
              /\ pc' = [pc EXCEPT ![t] = "idle"]
              /\ cur' = [cur EXCEPT ![t] = NoTask]
              /\ looper' = Repost(looper)
    /\ UNCHANGED <<jsVars, stopped, platform, tasks, taskQueue, activeTasks, mainQueue, emitted>>
    /\ UNCHANGED <<workerThread, offering, clearing, iosVars, obsVars>>

\* The branch of processNextTask: isProcessing.set(true) and enter the try block,
\* or else isProcessing.set(false), after which run() re-posts itself.
WorkerClaim(t) ==
    /\ platform = "android"
    /\ pc[t] = "polled"
    /\ IF ClaimGuard(cur[t])
         THEN /\ isProcessing' = TRUE
              /\ pc' = [pc EXCEPT ![t] = "processing"]
              /\ UNCHANGED <<cur, looper>>
         ELSE /\ isProcessing' = FALSE
              /\ pc' = [pc EXCEPT ![t] = "idle"]
              /\ cur' = [cur EXCEPT ![t] = NoTask]
              /\ looper' = Repost(looper)
    /\ UNCHANGED <<jsVars, stopped, platform, tasks, taskQueue, activeTasks, mainQueue, emitted>>
    /\ UNCHANGED <<workerThread, offering, clearing, iosVars, obsVars>>

\* val result = processMessage(task.message): returns, or throws into the catch block.
WorkerProcessMessage(t) ==
    /\ platform = "android"
    /\ pc[t] = "processing"
    /\ \E o \in ProcessOutcomes :
        pc' = [pc EXCEPT ![t] = IF o = "return" THEN "remove" ELSE "catch"]
    /\ UNCHANGED <<jsVars, stopped, platform, tasks, taskQueue, activeTasks, isProcessing, mainQueue, emitted>>
    /\ UNCHANGED <<workerThread, looper, cur, offering, clearing, iosVars, obsVars>>

\* activeTasks.remove(task.id)
RemoveById(reg, id) == [reg EXCEPT ![id] = NoTask]

\* synchronized(activeTasks) { activeTasks.remove(task.id) }
WorkerRemove(t) ==
    /\ platform = "android"
    /\ pc[t] = "remove"
    /\ MonitorFree
    /\ activeTasks' = RemoveById(activeTasks, IdOf(cur[t]))
    /\ pc' = [pc EXCEPT ![t] = "send"]
    /\ UNCHANGED <<jsVars, stopped, platform, tasks, taskQueue, isProcessing, mainQueue, emitted>>
    /\ UNCHANGED <<workerThread, looper, cur, offering, clearing, iosVars, obsVars>>

\* if (!task.cancelled.get()) before sendEventToJS / sendErrorToJS
DeliverGuard(h) == ~Cancelled(h)

\* sendEventToJS / sendErrorToJS: mainHandler.post { ... emit(...) }
PostToMain(q, h, kind) == Append(q, Event(h, kind))

\* if (!task.cancelled.get()) sendEventToJS(task, result, processingTime)
WorkerSendResult(t) ==
    /\ platform = "android"
    /\ pc[t] = "send"
    /\ mainQueue' = IF DeliverGuard(cur[t]) THEN PostToMain(mainQueue, cur[t], "result")
                    ELSE mainQueue
    /\ pc' = [pc EXCEPT ![t] = "finally"]
    /\ UNCHANGED <<jsVars, stopped, platform, tasks, taskQueue, activeTasks, isProcessing, emitted>>
    /\ UNCHANGED <<workerThread, looper, cur, offering, clearing, iosVars, obsVars>>

\* Mutant of WorkerSendError: a task whose processing failed is put back on the
\* queue to be tried again.
WorkerRetry(t) ==
    /\ platform = "android"
    /\ pc[t] = "catch"
    /\ taskQueue' = Append(taskQueue, cur[t])
    /\ pc' = [pc EXCEPT ![t] = "finally"]
    /\ UNCHANGED <<jsVars, stopped, platform, tasks, activeTasks, isProcessing, mainQueue, emitted>>
    /\ UNCHANGED <<workerThread, looper, cur, offering, clearing, iosVars, obsVars>>

\* Mutant of WorkerSendError: processNextTask has no catch block; the exception
\* leaves run() before anything is sent and before postDelayed.
WorkerThrowEscapes(t) ==
    /\ platform = "android"
    /\ pc[t] = "catch"
    /\ pc' = [pc EXCEPT ![t] = "idle"]
    /\ cur' = [cur EXCEPT ![t] = NoTask]
    /\ UNCHANGED <<jsVars, stopped, platform, tasks, taskQueue, activeTasks, isProcessing, mainQueue, emitted>>
    /\ UNCHANGED <<workerThread, looper, offering, clearing, iosVars, obsVars>>

\* catch (e: Exception) { if (!task.cancelled.get()) sendErrorToJS(task, ...) }
WorkerSendError(t) ==
    /\ platform = "android"
    /\ pc[t] = "catch"
    /\ mainQueue' = IF DeliverGuard(cur[t]) THEN PostToMain(mainQueue, cur[t], "error")
                    ELSE mainQueue
    /\ pc' = [pc EXCEPT ![t] = "finally"]
    /\ UNCHANGED <<jsVars, stopped, platform, tasks, taskQueue, activeTasks, isProcessing, emitted>>
    /\ UNCHANGED <<workerThread, looper, cur, offering, clearing, iosVars, obsVars>>

\* Mutant of WorkerFinally: the finally block sets isProcessing to false.
WorkerFinallyIdle(t) ==
    /\ platform = "android"
    /\ pc[t] = "finally"
    /\ isProcessing' = FALSE
    /\ pc' = [pc EXCEPT ![t] = "idle"]
    /\ cur' = [cur EXCEPT ![t] = NoTask]
    /\ looper' = Repost(looper)
    /\ UNCHANGED <<jsVars, stopped, platform, tasks, taskQueue, activeTasks, mainQueue, emitted>>
    /\ UNCHANGED <<workerThread, offering, clearing, iosVars, obsVars>>

\* finally { isProcessing.set(taskQueue.isNotEmpty()) }, then run() re-posts itself.
WorkerFinally(t) ==
    /\ platform = "android"
    /\ pc[t] = "finally"
    /\ isProcessing' = (taskQueue # <<>>)
    /\ pc' = [pc EXCEPT ![t] = "idle"]
    /\ cur' = [cur EXCEPT ![t] = NoTask]
    /\ looper' = Repost(looper)
    /\ UNCHANGED <<jsVars, stopped, platform, tasks, taskQueue, activeTasks, mainQueue, emitted>>
    /\ UNCHANGED <<workerThread, offering, clearing, iosVars, obsVars>>

\* Mutant of PostMessagePut: an id that already has a registry entry keeps it.
PostMessagePutKeep(taskId) ==
    /\ platform = "android"
    /\ Len(tasks) < MaxTasks
    /\ PendingCalls < MaxCallers
    /\ MonitorFree
    /\ LET h == Len(tasks) + 1
           id == FinalTaskId(taskId, h)
       IN /\ tasks' = Append(tasks, NewTask(id))
          /\ activeTasks' = IF activeTasks[id] # NoTask THEN activeTasks
                                                        ELSE [activeTasks EXCEPT ![id] = h]
          /\ offering' = offering \cup {h}
    /\ UNCHANGED <<jsVars, stopped, platform, taskQueue, isProcessing, mainQueue, emitted>>
    /\ UNCHANGED <<workerThread, looper, pc, cur, clearing, iosVars, obsVars>>

\* postMessage, first half: the task is built and put into the registry under
\* synchronized(activeTasks).
PostMessagePut(taskId) ==
    /\ platform = "android"
    /\ Len(tasks) < MaxTasks
    /\ PendingCalls < MaxCallers
    /\ MonitorFree
    /\ LET h == Len(tasks) + 1
           id == FinalTaskId(taskId, h)
       IN /\ tasks' = Append(tasks, NewTask(id))
          /\ activeTasks' = [activeTasks EXCEPT ![id] = h]
          /\ offering' = offering \cup {h}
    /\ UNCHANGED <<jsVars, stopped, platform, taskQueue, isProcessing, mainQueue, emitted>>
    /\ UNCHANGED <<workerThread, looper, pc, cur, clearing, iosVars, obsVars>>

\* Mutant of Offer: the task is inserted at the head of the queue.
OfferFront(q, h) == <<h>> \o q

\* taskQueue.offer(task) / taskQueue.append(task): at the tail
Offer(q, h) == Append(q, h)

\* postMessage, second half: taskQueue.offer(task); promise.resolve(finalTaskId)
PostMessageOffer(h) ==
    /\ platform = "android"
    /\ h \in offering
    /\ taskQueue' = Offer(taskQueue, h)
    /\ offering' = offering \ {h}
    /\ enqueued' = Append(enqueued, h)
    /\ afterClear' = FALSE
    /\ UNCHANGED <<jsVars, stopped, platform, tasks, activeTasks, isProcessing, mainQueue, emitted>>
    /\ UNCHANGED <<workerThread, looper, pc, cur, clearing, iosVars>>
    /\ UNCHANGED <<cancelOk, cancelQueued, counted, lastCount>>

\* Mutant of CancelTaskBody: the registry entry is removed but the task's
\* cancelled flag is left alone.
CancelTaskBodyNoFlag(ts, reg, taskId) ==
    LET h == reg[taskId]
    IN IF h # NoTask
         THEN <<ts, [reg EXCEPT ![taskId] = NoTask], TRUE, h>>
         ELSE <<ts, reg, FALSE, NoTask>>

\* Mutant of CancelTaskBody: an id without a registry entry is looked up among
\* the tasks of the pending queue, and a task found there is cancelled.
CancelTaskBodyScan(ts, reg, taskId) ==
    LET h == reg[taskId]
        qs == {taskQueue[i] : i \in 1..Len(taskQueue)}
        found == {q \in qs : ts[q].id = taskId}
    IN IF h # NoTask
         THEN <<SetCancelled(ts, h), [reg EXCEPT ![taskId] = NoTask], TRUE, h>>
         ELSE IF found # {}
                THEN LET q == CHOOSE x \in found : TRUE
                     IN <<SetCancelled(ts, q), reg, TRUE, q>>
                ELSE <<ts, reg, FALSE, NoTask>>

\* The body of cancelTask on the registry, the same in both modules: returns
\* <<tasks, activeTasks, resolved value, cancelled handle>>.
CancelTaskBody(ts, reg, taskId) ==
    LET h == reg[taskId]
    IN IF h # NoTask
         THEN <<SetCancelled(ts, h), RemoveById(reg, taskId), TRUE, h>>
         ELSE <<ts, reg, FALSE, NoTask>>

InQueue(h) == \E i \in 1..Len(taskQueue) : taskQueue[i] = h

WhileQueued(h) == IF h # NoTask /\ InQueue(h) THEN {h} ELSE {}

\* What cancelTask(taskId) resolves when it runs in the current state.
CancelTaskResult(taskId) == CancelTaskBody(tasks, activeTasks, taskId)[3]

Bump(f, h) == IF h = NoTask THEN f ELSE [f EXCEPT ![h] = IF @ < 2 THEN @ + 1 ELSE @]

\* Mutant of CancelTask: the cancelled task is also taken out of taskQueue.
CancelTaskSplice(taskId) ==
    /\ platform = "android"
    /\ MonitorFree
    /\ LET r == CancelTaskBody(tasks, activeTasks, taskId)
       IN /\ tasks' = r[1]
          /\ activeTasks' = r[2]
          /\ cancelOk' = Bump(cancelOk, r[4])
          /\ cancelQueued' = cancelQueued \cup WhileQueued(r[4])
          /\ taskQueue' = SelectSeq(taskQueue, LAMBDA h : h # r[4])
    /\ UNCHANGED <<jsVars, stopped, platform, isProcessing, mainQueue, emitted>>
    /\ UNCHANGED <<androidVars, iosVars, enqueued, counted, afterClear, lastCount>>

\* cancelTask: one synchronized(activeTasks) block
CancelTask(taskId) ==
    /\ platform = "android"
    /\ MonitorFree
    /\ LET r == CancelTaskBody(tasks, activeTasks, taskId)
       IN /\ tasks' = r[1]
          /\ activeTasks' = r[2]
          /\ cancelOk' = Bump(cancelOk, r[4])
          /\ cancelQueued' = cancelQueued \cup WhileQueued(r[4])
    /\ UNCHANGED <<jsVars, stopped, platform, taskQueue, isProcessing, mainQueue, emitted>>
    /\ UNCHANGED <<androidVars, iosVars, enqueued, counted, afterClear, lastCount>>

\* Mutant of CountEach: the count is taken from the pending queue.
CountQueued(hs) == Len(taskQueue)

\* var cancelledCount = 0; activeTasks.values.forEach { ...; cancelledCount++ }
RECURSIVE CountEach(_)
CountEach(hs) ==
    IF hs = {} THEN 0
    ELSE LET h == CHOOSE x \in hs : TRUE IN 1 + CountEach(hs \ {h})

\* cancelAllTasks, first half: the synchronized(activeTasks) block
CancelAllSync ==
    /\ platform = "android"
    /\ PendingCalls < MaxCallers
    /\ MonitorFree
    /\ tasks' = CancelEach(tasks, ActiveValues)
    /\ clearing' = Append(clearing, CountEach(ActiveValues))
    /\ counted' = counted \cup ActiveValues
    /\ activeTasks' = EmptyRegistry
    /\ UNCHANGED <<jsVars, stopped, platform, taskQueue, isProcessing, mainQueue, emitted>>
    /\ UNCHANGED <<workerThread, looper, pc, cur, offering, iosVars>>
    /\ UNCHANGED <<enqueued, cancelOk, cancelQueued, afterClear, lastCount>>

RemoveAt(s, i) == SubSeq(s, 1, i - 1) \o SubSeq(s, i + 1, Len(s))

\* cancelAllTasks, second half: taskQueue.clear(); promise.resolve(cancelledCount)
CancelAllClear(i) ==
    /\ platform = "android"
    /\ i \in 1..Len(clearing)
    /\ taskQueue' = <<>>
    /\ afterClear' = TRUE
    /\ lastCount' = clearing[i]
    /\ clearing' = RemoveAt(clearing, i)
    /\ UNCHANGED <<jsVars, stopped, platform, tasks, activeTasks, isProcessing, mainQueue, emitted>>
    /\ UNCHANGED <<workerThread, looper, pc, cur, offering, iosVars>>
    /\ UNCHANGED <<enqueued, cancelOk, cancelQueued, counted>>

\* Mutant of GetQueueSizeResult: the size of the registry is resolved.
GetRegistrySizeResult == Cardinality({i \in AllIds : activeTasks[i] # NoTask})

\* getQueueSize resolves taskQueue.size (Android) / taskQueue.count (iOS)
GetQueueSizeResult == Len(taskQueue)

\* isProcessing resolves isProcessing.get() (Android) / isProcessing (iOS)
IsProcessingResult == isProcessing

\* getQueueSize: promise.resolve(taskQueue.size); reads, changes nothing
GetQueueSize ==
    /\ platform = "android"
    /\ GetQueueSizeResult \in Nat
    /\ UNCHANGED vars

\* isProcessing: promise.resolve(isProcessing.get()); reads, changes nothing
IsProcessing ==
    /\ platform = "android"
    /\ IsProcessingResult \in BOOLEAN
    /\ UNCHANGED vars

AndroidNext ==
    \/ Initialize
    \/ \E t \in Threads : WorkerPoll(t)
    \/ \E t \in Threads : WorkerClaim(t)
    \/ \E t \in Threads : WorkerProcessMessage(t)
    \/ \E t \in Threads : WorkerRemove(t)
    \/ \E t \in Threads : WorkerSendResult(t)
    \/ \E t \in Threads : WorkerSendError(t)
    \/ \E t \in Threads : WorkerFinally(t)
    \/ \E taskId \in CallerIds \cup {NoId} : PostMessagePut(taskId)
    \/ \E h \in Handles : PostMessageOffer(h)
    \/ \E taskId \in AllIds : CancelTask(taskId)
    \/ CancelAllSync
    \/ \E i \in 1..MaxCallers : CancelAllClear(i)
    \/ GetQueueSize
    \/ IsProcessing

\* ================================================================ iOS
Block(kind, arg) == [kind |-> kind, arg |-> arg]

\* serialQueue.async { ... }: the block waits behind those already queued
SerialAsync(q, b) == Append(q, b)

\* Callers and the timer stop submitting while MaxSerial of their blocks are waiting;
\* the removal blocks of processTask are never held back.
RECURSIVE External(_)
External(q) ==
    IF q = <<>> THEN 0
    ELSE (IF Head(q).kind = "remove" THEN 0 ELSE 1) + External(Tail(q))

SerialRoom == External(serialQueue) < MaxSerial

HeadIs(kind) == serialQueue # <<>> /\ Head(serialQueue).kind = kind

\* init -> startProcessingLoop: the main-queue block that schedules the 10 ms timer
StartProcessingLoop ==
    /\ platform = "ios"
    /\ ~processingTimer
    /\ processingTimer' = TRUE
    /\ UNCHANGED <<jsVars, stopped, platform, tasks, taskQueue, activeTasks, isProcessing, mainQueue, emitted>>
    /\ UNCHANGED <<androidVars, serialQueue, bg, obsVars>>

\* The timer fires on the main run loop: processNextTask() queues its block.
TimerFire ==
    /\ platform = "ios"
    /\ processingTimer
    /\ SerialRoom
    /\ serialQueue' = SerialAsync(serialQueue, Block("tick", 0))
    /\ UNCHANGED <<jsVars, stopped, platform, tasks, taskQueue, activeTasks, isProcessing, mainQueue, emitted>>
    /\ UNCHANGED <<androidVars, processingTimer, bg, obsVars>>

\* backgroundQueue.async { self.processTask(task) }: the global concurrent queue
\* starts the block on a thread of its own.
BackgroundAsync(b, h) == [b EXCEPT ![h] = "processing"]

\* The block of processNextTask on serialQueue.
IosProcessNextTask ==
    /\ platform = "ios"
    /\ HeadIs("tick")
    /\ serialQueue' = Tail(serialQueue)
    /\ IF taskQueue = <<>>
         THEN /\ isProcessing' = FALSE
              /\ UNCHANGED <<taskQueue, activeTasks, bg>>
         ELSE LET task == Head(taskQueue)
              IN /\ taskQueue' = Tail(taskQueue)
                 /\ IF Cancelled(task)
                      THEN /\ activeTasks' = RemoveById(activeTasks, IdOf(task))
                           /\ UNCHANGED <<isProcessing, bg>>
                      ELSE /\ isProcessing' = TRUE
                           /\ bg' = BackgroundAsync(bg, task)
                           /\ UNCHANGED activeTasks
    /\ UNCHANGED <<jsVars, stopped, platform, tasks, mainQueue, emitted>>
    /\ UNCHANGED <<androidVars, processingTimer, obsVars>>

\* processTask: let result = try processMessage(task.message), or the catch block
IosProcessMessage(h) ==
    /\ platform = "ios"
    /\ bg[h] = "processing"
    /\ \E o \in ProcessOutcomes :
        bg' = [bg EXCEPT ![h] = IF o = "return" THEN "remove" ELSE "catch"]
    /\ UNCHANGED <<jsVars, stopped, platform, tasks, taskQueue, activeTasks, isProcessing, mainQueue, emitted>>
    /\ UNCHANGED <<androidVars, processingTimer, serialQueue, obsVars>>

\* processTask: serialQueue.async { self?.activeTasks.removeValue(forKey: task.id) }
IosQueueRemove(h) ==
    /\ platform = "ios"
    /\ bg[h] = "remove"
    /\ serialQueue' = SerialAsync(serialQueue, Block("remove", h))
    /\ bg' = [bg EXCEPT ![h] = "send"]
    /\ UNCHANGED <<jsVars, stopped, platform, tasks, taskQueue, activeTasks, isProcessing, mainQueue, emitted>>
    /\ UNCHANGED <<androidVars, processingTimer, obsVars>>

\* The removal block queued by processTask.
IosRemove ==
    /\ platform = "ios"
    /\ HeadIs("remove")
    /\ serialQueue' = Tail(serialQueue)
    /\ activeTasks' = RemoveById(activeTasks, IdOf(Head(serialQueue).arg))
    /\ UNCHANGED <<jsVars, stopped, platform, tasks, taskQueue, isProcessing, mainQueue, emitted>>
    /\ UNCHANGED <<androidVars, processingTimer, bg, obsVars>>

\* task.isCancelled read on the background thread.  isCancelled is a plain var
\* written on serialQueue with nothing ordering the two: the read may miss a
\* write that has already happened.
IsCancelledSeen(h) == IF Cancelled(h) THEN {TRUE, FALSE} ELSE {FALSE}

\* if !task.isCancelled { sendEventToJS(...) }
IosSendResult(h) ==
    /\ platform = "ios"
    /\ bg[h] = "send"
    /\ \E c \in IsCancelledSeen(h) :
        mainQueue' = IF ~c THEN PostToMain(mainQueue, h, "result") ELSE mainQueue
    /\ bg' = [bg EXCEPT ![h] = "done"]
    /\ UNCHANGED <<jsVars, stopped, platform, tasks, taskQueue, activeTasks, isProcessing, emitted>>
    /\ UNCHANGED <<androidVars, processingTimer, serialQueue, obsVars>>

\* catch { if !task.isCancelled { sendErrorToJS(...) } }
IosSendError(h) ==
    /\ platform = "ios"
    /\ bg[h] = "catch"
    /\ \E c \in IsCancelledSeen(h) :
        mainQueue' = IF ~c THEN PostToMain(mainQueue, h, "error") ELSE mainQueue
    /\ bg' = [bg EXCEPT ![h] = "done"]
    /\ UNCHANGED <<jsVars, stopped, platform, tasks, taskQueue, activeTasks, isProcessing, emitted>>
    /\ UNCHANGED <<androidVars, processingTimer, serialQueue, obsVars>>

\* postMessage: the WorkerTask is built by the caller, the rest is queued.
IosPostMessage(taskId) ==
    /\ platform = "ios"
    /\ Len(tasks) < MaxTasks
    /\ SerialRoom
    /\ LET h == Len(tasks) + 1
       IN /\ tasks' = Append(tasks, NewTask(FinalTaskId(taskId, h)))
          /\ serialQueue' = SerialAsync(serialQueue, Block("post", h))
    /\ UNCHANGED <<jsVars, stopped, platform, taskQueue, activeTasks, isProcessing, mainQueue, emitted>>
    /\ UNCHANGED <<androidVars, processingTimer, bg, obsVars>>

\* The block of postMessage: activeTasks[finalTaskId] = task; taskQueue.append(task)
IosPostMessageBlock ==
    /\ platform = "ios"
    /\ HeadIs("post")
    /\ serialQueue' = Tail(serialQueue)
    /\ LET h == Head(serialQueue).arg
       IN /\ activeTasks' = [activeTasks EXCEPT ![IdOf(h)] = h]
          /\ taskQueue' = Offer(taskQueue, h)
          /\ enqueued' = Append(enqueued, h)
    /\ afterClear' = FALSE
    /\ UNCHANGED <<jsVars, stopped, platform, tasks, isProcessing, mainQueue, emitted>>
    /\ UNCHANGED <<androidVars, processingTimer, bg, cancelOk, cancelQueued, counted, lastCount>>

\* cancelTask / cancelAllTasks / getQueueSize / isProcessing: the call only queues a block.
IosCall(kind, arg) ==
    /\ platform = "ios"
    /\ SerialRoom
    /\ serialQueue' = SerialAsync(serialQueue, Block(kind, arg))
    /\ UNCHANGED <<jsVars, stopped, platform, tasks, taskQueue, activeTasks, isProcessing, mainQueue, emitted>>
    /\ UNCHANGED <<androidVars, processingTimer, bg, obsVars>>

IosCancelTask(taskId) == IosCall("cancel", taskId)
IosCancelAllTasks == IosCall("cancelAll", 0)
IosGetQueueSize == IosCall("size", 0)
IosIsProcessing == IosCall("isProcessing", 0)

\* The block of cancelTask.
IosCancelTaskBlock ==
    /\ platform = "ios"
    /\ HeadIs("cancel")
    /\ serialQueue' = Tail(serialQueue)
    /\ LET r == CancelTaskBody(tasks, activeTasks, Head(serialQueue).arg)
       IN /\ tasks' = r[1]
          /\ activeTasks' = r[2]
          /\ cancelOk' = Bump(cancelOk, r[4])
          /\ cancelQueued' = cancelQueued \cup WhileQueued(r[4])
    /\ UNCHANGED <<jsVars, stopped, platform, taskQueue, isProcessing, mainQueue, emitted>>
    /\ UNCHANGED <<androidVars, processingTimer, bg>>
    /\ UNCHANGED <<enqueued, counted, afterClear, lastCount>>

\* let cancelledCount = self.activeTasks.count
ActiveCount == Cardinality({i \in AllIds : activeTasks[i] # NoTask})

\* The block of cancelAllTasks.
IosCancelAllTasksBlock ==
    /\ platform = "ios"
    /\ HeadIs("cancelAll")
    /\ serialQueue' = Tail(serialQueue)
    /\ lastCount' = ActiveCount
    /\ counted' = counted \cup ActiveValues
    /\ tasks' = CancelEach(tasks, ActiveValues)
    /\ activeTasks' = EmptyRegistry
    /\ taskQueue' = <<>>
    /\ afterClear' = TRUE
    /\ UNCHANGED <<jsVars, stopped, platform, isProcessing, mainQueue, emitted>>
    /\ UNCHANGED <<androidVars, processingTimer, bg, enqueued, cancelOk, cancelQueued>>

\* The block of getQueueSize: reads taskQueue.count
IosGetQueueSizeBlock ==
    /\ platform = "ios"
    /\ HeadIs("size")
    /\ GetQueueSizeResult \in Nat
    /\ serialQueue' = Tail(serialQueue)
    /\ UNCHANGED <<jsVars, stopped, platform, tasks, taskQueue, activeTasks, isProcessing, mainQueue, emitted>>
    /\ UNCHANGED <<androidVars, processingTimer, bg, obsVars>>

\* The block of isProcessing: reads isProcessing
IosIsProcessingBlock ==
    /\ platform = "ios"
    /\ HeadIs("isProcessing")
    /\ IsProcessingResult \in BOOLEAN
    /\ serialQueue' = Tail(serialQueue)
    /\ UNCHANGED <<jsVars, stopped, platform, tasks, taskQueue, activeTasks, isProcessing, mainQueue, emitted>>
    /\ UNCHANGED <<androidVars, processingTimer, bg, obsVars>>

IosNext ==
    \/ StartProcessingLoop
    \/ TimerFire
    \/ IosProcessNextTask
    \/ \E h \in Handles : IosProcessMessage(h)
    \/ \E h \in Handles : IosQueueRemove(h)
    \/ IosRemove
    \/ \E h \in Handles : IosSendResult(h)
    \/ \E h \in Handles : IosSendError(h)
    \/ \E taskId \in CallerIds \cup {NoId} : IosPostMessage(taskId)
    \/ IosPostMessageBlock
    \/ \E taskId \in AllIds : IosCancelTask(taskId)
    \/ IosCancelTaskBlock
    \/ IosCancelAllTasks
    \/ IosCancelAllTasksBlock
    \/ IosGetQueueSize
    \/ IosGetQueueSizeBlock
    \/ IosIsProcessing
    \/ IosIsProcessingBlock

Next ==
    \/ MainEmit
    \/ AndroidNext
    \/ IosNext

Spec == Init /\ [][Next]_vars

\* The Android module alone.
InitAndroid == Init /\ platform = "android"

NextAndroid ==
    \/ MainEmit
    \/ AndroidNext

SpecAndroid == InitAndroid /\ [][NextAndroid]_vars

\* onCatalystInstanceDestroy() -> stopWorkerThread(): quitSafely(), workerThread
\* and workerHandler set to null, taskQueue and activeTasks cleared, isProcessing
\* set to false.  quitSafely lets the Runnable that is running finish and still
\* delivers a Runnable that is already due, while one delayed into the future is
\* dropped: which of the two a waiting loop Runnable is depends on the clock.
\* No task is flagged and no lock is taken.
OnCatalystInstanceDestroy ==
    /\ platform = "android"
    /\ ~stopped.ran
    /\ \E due \in BOOLEAN :
           looper' = IF workerThread = 0 \/ due THEN looper
                                                 ELSE [looper EXCEPT ![workerThread] = 0]
    /\ workerThread' = 0
    /\ taskQueue' = <<>>
    /\ activeTasks' = EmptyRegistry
    /\ isProcessing' = FALSE
    /\ stopped' = [ran |-> TRUE,
                   tasks |-> {enqueued[i] : i \in 1..Len(enqueued)},
                   emitted |-> Len(emitted)]
    /\ UNCHANGED <<jsVars, platform, tasks, mainQueue, emitted>>
    /\ UNCHANGED <<pc, cur, offering, clearing, iosVars, obsVars>>

NextAndroidDestroy ==
    \/ NextAndroid
    \/ OnCatalystInstanceDestroy

\* The Android module over its whole life, the destruction of the module included.
SpecAndroidDestroy == InitAndroid /\ [][NextAndroidDestroy]_vars

\* The Android module with its scheduling: the HandlerThread runs every Runnable
\* posted to its looper, the main looper runs every posted event, a caller
\* thread inside postMessage or cancelAllTasks runs on to its return, and
\* processMessage terminates.
FairAndroid ==
    /\ WF_vars(MainEmit)
    /\ WF_vars(Initialize)
    /\ \A t \in Threads :
        /\ WF_vars(WorkerPoll(t))
        /\ WF_vars(WorkerClaim(t))
        /\ WF_vars(WorkerProcessMessage(t))
        /\ WF_vars(WorkerRemove(t))
        /\ WF_vars(WorkerSendResult(t))
        /\ WF_vars(WorkerSendError(t))
        /\ WF_vars(WorkerFinally(t))
    /\ \A h \in Handles : WF_vars(PostMessageOffer(h))
    /\ \A i \in 1..MaxCallers : WF_vars(CancelAllClear(i))

LiveSpecAndroid == InitAndroid /\ [][NextAndroid]_vars /\ FairAndroid

\* The iOS module alone.
InitIos == Init /\ platform = "ios"

NextIos ==
    \/ MainEmit
    \/ IosNext

SpecIos == InitIos /\ [][NextIos]_vars

\* The iOS module with its scheduling: the main run loop schedules the timer and
\* keeps firing it, serialQueue runs every block submitted to it, the global
\* queue runs every processTask to its end, and the main queue runs every event
\* block.  The timer fires however many caller blocks are waiting, hence SF.
FairIos ==
    /\ WF_vars(StartProcessingLoop)
    /\ SF_vars(TimerFire)
    /\ WF_vars(IosProcessNextTask)
    /\ WF_vars(IosRemove)
    /\ WF_vars(IosPostMessageBlock)
    /\ WF_vars(IosCancelTaskBlock)
    /\ WF_vars(IosCancelAllTasksBlock)
    /\ WF_vars(IosGetQueueSizeBlock)
    /\ WF_vars(IosIsProcessingBlock)
    /\ \A h \in Handles :
        /\ WF_vars(IosProcessMessage(h))
        /\ WF_vars(IosQueueRemove(h))
        /\ WF_vars(IosSendResult(h))
        /\ WF_vars(IosSendError(h))

LiveSpecIos == InitIos /\ [][NextIos]_vars /\ WF_vars(MainEmit) /\ FairIos

\* Both modules with their scheduling.
LiveSpec == Init /\ [][Next]_vars /\ FairAndroid /\ FairIos

\* ---------------------------------------------------------------- event payload
\* The params map the main-queue Runnable / block builds for an event:
\* sendEventToJS puts taskId, result, processingTime and timestamp,
\* sendErrorToJS puts taskId, error and timestamp.
ParamKeys(e) ==
    IF e.kind = "result" THEN {"taskId", "result", "processingTime", "timestamp"}
                         ELSE {"taskId", "error", "timestamp"}

Params(e) ==
    [k \in ParamKeys(e) |->
        CASE k = "taskId" -> e.taskId
          [] k = "result" -> "processed"          \* the value processMessage returned
          [] k = "processingTime" -> "measured"   \* end minus start of processMessage
          [] k = "timestamp" -> "now"             \* the clock when the params are built
          [] k = "error" -> "message"]            \* e.message ?: "Unknown error"

\* ================================================================ TypeScript wrapper
\* The state of the native module, which no method of the wrapper touches.
nativeVars == <<stopped, platform, tasks, taskQueue, activeTasks, isProcessing, mainQueue, emitted,
                androidVars, iosVars, obsVars>>

JsUndefined == "undefined"     \* the value of a parameter the caller left out
JsMessages == {"", "m"}
JsTaskIds == {"", "t"}
\* The argument lists a caller passes to each method.
JsArgs(method) ==
    CASE method = "postMessage" ->
             {<<m>> : m \in JsMessages} \cup {<<m, t>> : m \in JsMessages, t \in JsTaskIds}
      [] method = "cancelTask" -> {<<t>> : t \in JsTaskIds}
      [] OTHER -> {<<>>}

Pending == [kind |-> "pending", value |-> ""]
\* What the promise of a native method settles with: a resolved value or a rejection.
NativeOutcomes == {[kind |-> "resolve", value |-> "a"], [kind |-> "resolve", value |-> "b"],
                   [kind |-> "reject", value |-> "e"]}

\* Mutant of Param: a parameter left out is read as the empty string.
ParamDefaulted(args, i) == IF i <= Len(args) THEN args[i] ELSE ""

\* `taskId?: string`: the i-th parameter of a call, undefined when left out.
Param(args, i) == IF i <= Len(args) THEN args[i] ELSE JsUndefined

\* `return <promise>` in an async method: the method's promise settles as the
\* returned promise does.
Adopt(o) == o

\* NativeWorkerNativeModule.<method>(...nativeArgs), returned by the async method
\* `method` called with `args`.
NativeCall(method, args, nativeArgs) ==
    /\ Len(wrapperCalls) < MaxJsCalls
    /\ nativeCalls' = Append(nativeCalls, [method |-> method, args |-> nativeArgs,
                                           by |-> Len(wrapperCalls) + 1, outcome |-> Pending])
    /\ wrapperCalls' = Append(wrapperCalls, [method |-> method, args |-> args,
                                             promise |-> Len(nativeCalls) + 1,
                                             outcome |-> Pending])
    /\ UNCHANGED <<emitterSubs, listeners, jsEmits, swept, nativeVars>>

\* NativeWorker.postMessage(message, taskId?)
WrapperPostMessage ==
    \E args \in JsArgs("postMessage") :
        LET message == Param(args, 1)
            taskId == Param(args, 2)
        IN  NativeCall("postMessage", args, <<message, taskId>>)

\* NativeWorker.cancelTask(taskId)
WrapperCancelTask ==
    \E args \in JsArgs("cancelTask") :
        LET taskId == Param(args, 1)
        IN  NativeCall("cancelTask", args, <<taskId>>)

\* NativeWorker.cancelAllTasks()
WrapperCancelAllTasks == NativeCall("cancelAllTasks", <<>>, <<>>)

\* NativeWorker.getQueueSize()
WrapperGetQueueSize == NativeCall("getQueueSize", <<>>, <<>>)

\* NativeWorker.isProcessing()
WrapperIsProcessing == NativeCall("isProcessing", <<>>, <<>>)

\* The promise of a native method settles (in the tests: mockResolvedValue /
\* mockRejectedValue).
NativeSettle ==
    \E n \in 1..Len(nativeCalls), o \in NativeOutcomes :
        /\ nativeCalls[n].outcome = Pending
        /\ nativeCalls' = [nativeCalls EXCEPT ![n].outcome = o]
        /\ UNCHANGED <<wrapperCalls, emitterSubs, listeners, jsEmits, swept, nativeVars>>

\* The promise of an async method settles once the promise it returned has.
WrapperSettle ==
    \E i \in 1..Len(wrapperCalls) :
        /\ wrapperCalls[i].outcome = Pending
        /\ nativeCalls[wrapperCalls[i].promise].outcome # Pending
        /\ wrapperCalls' = [wrapperCalls EXCEPT
                               ![i].outcome = Adopt(nativeCalls[wrapperCalls[i].promise].outcome)]
        /\ UNCHANGED <<nativeCalls, emitterSubs, listeners, jsEmits, swept, nativeVars>>

\* -------- listeners
NoSub == 0                     \* this.listeners has no entry for "onWorkerMessage"
Subs == 1..Len(emitterSubs)
Active(s) == emitterSubs[s].active

\* this.eventEmitter.addListener(eventType, listener): a new subscription, which
\* stays registered until its remove() is called.
EmitterAddListener(via) ==
    Append(emitterSubs, [via |-> via, active |-> TRUE, heard |-> 0])

\* Mutant of SubscriptionRemove: remove() drops every subscription of the event type.
SubscriptionRemoveType(subs, s) ==
    [x \in 1..Len(subs) |-> [subs[x] EXCEPT !.active = FALSE]]

\* subscription.remove(): the emitter drops this registration; dropping a
\* registration that is already gone does nothing.
SubscriptionRemove(subs, s) == [subs EXCEPT ![s].active = FALSE]

\* addListener(eventType, listener), eventType being "onWorkerMessage"
AddListenerBody(via) ==
    /\ Len(emitterSubs) < MaxSubs
    /\ emitterSubs' = EmitterAddListener(via)
    /\ listeners' = Len(emitterSubs) + 1
    /\ UNCHANGED <<nativeCalls, wrapperCalls, jsEmits, swept, nativeVars>>

AddListener == AddListenerBody("addListener")

\* onWorkerMessage(listener): addListener, and a cleanup function over its subscription
OnWorkerMessage == AddListenerBody("onWorkerMessage")

\* The function returned by onWorkerMessage: () => subscription.remove()
Cleanup(s) ==
    /\ s \in Subs
    /\ emitterSubs[s].via = "onWorkerMessage"
    /\ emitterSubs' = SubscriptionRemove(emitterSubs, s)
    /\ UNCHANGED <<nativeCalls, wrapperCalls, listeners, jsEmits, swept, nativeVars>>

\* The subscription returned by addListener, removed by the caller.
ReturnedSubscriptionRemove(s) ==
    /\ s \in Subs
    /\ emitterSubs[s].via = "addListener"
    /\ emitterSubs' = SubscriptionRemove(emitterSubs, s)
    /\ UNCHANGED <<nativeCalls, wrapperCalls, listeners, jsEmits, swept, nativeVars>>

\* removeListener(eventType)
RemoveListener ==
    /\ IF listeners # NoSub
          THEN /\ emitterSubs' = SubscriptionRemove(emitterSubs, listeners)
               /\ listeners' = NoSub
          ELSE UNCHANGED <<emitterSubs, listeners>>
    /\ UNCHANGED <<nativeCalls, wrapperCalls, jsEmits, swept, nativeVars>>

\* removeAllListeners(): forEach over the entries of this.listeners, then clear()
RemoveAllListeners ==
    /\ emitterSubs' = IF listeners # NoSub THEN SubscriptionRemove(emitterSubs, listeners)
                                           ELSE emitterSubs
    /\ listeners' = NoSub
    /\ swept' = Subs
    /\ UNCHANGED <<nativeCalls, wrapperCalls, jsEmits, nativeVars>>

\* An onWorkerMessage event reaches the emitter: every registered subscription's
\* listener is called with it.
JsEmit ==
    /\ jsEmits < MaxEmits
    /\ jsEmits' = jsEmits + 1
    /\ emitterSubs' = [s \in Subs |->
                          IF Active(s) THEN [emitterSubs[s] EXCEPT !.heard = @ + 1]
                                       ELSE emitterSubs[s]]
    /\ UNCHANGED <<nativeCalls, wrapperCalls, listeners, swept, nativeVars>>

NextWrapper ==
    \/ WrapperPostMessage
    \/ WrapperCancelTask
    \/ WrapperCancelAllTasks
    \/ WrapperGetQueueSize
    \/ WrapperIsProcessing
    \/ NativeSettle
    \/ WrapperSettle
    \/ AddListener
    \/ OnWorkerMessage
    \/ \E s \in 1..MaxSubs : Cleanup(s)
    \/ \E s \in 1..MaxSubs : ReturnedSubscriptionRemove(s)
    \/ RemoveListener
    \/ RemoveAllListeners
    \/ JsEmit

\* The wrapper alone, over a native module that settles its promises at will.
SpecWrapper == Init /\ [][NextWrapper]_vars

\* ================================================================ properties
\* Threads inside processMessage (Android) / tasks inside processMessage (iOS).
AndroidInFlight == {t \in Threads : pc[t] = "processing"}
IosInFlight == {h \in Handles : bg[h] = "processing"}

Created == 1..Len(tasks)
DistinctIds == \A i, j \in Created : tasks[i].id = tasks[j].id => i = j

\* No task has been flagged and no cancelAllTasks has started or returned.
NoCancellation ==
    /\ \A h \in Created : ~Cancelled(h)
    /\ clearing = <<>>
    /\ lastCount = -1

EmittedTasks == [i \in 1..Len(emitted) |-> emitted[i].task]
PendingEvents == {mainQueue[i].task : i \in 1..Len(mainQueue)}
HasEvent(h) == \E i \in 1..Len(emitted) : emitted[i].task = h
EventCount(h) == Cardinality({i \in 1..Len(emitted) : emitted[i].task = h})

Pos(q, h) == CHOOSE k \in 1..Len(q) : q[k] = h
\* The events es come in the order in which their tasks stand in q.
InOrder(es, q) ==
    \A i, j \in 1..Len(es) : i < j => Pos(q, es[i]) < Pos(q, es[j])

\* C1: Android: at most one processMessage invocation is in flight in every
\* reachable state, whatever the callers and the worker loop have done.
C1_OneInFlightAndroid ==
    platform = "android" => Cardinality(AndroidInFlight) <= 1

\* C1 witness: a task is inside processMessage while another one is waiting in
\* the queue and the loop Runnable keeps being scheduled.
C1_Witness ==
    /\ platform = "android"
    /\ \E t \in Threads : pc[t] = "processing"
    /\ taskQueue # <<>>

\* C2: iOS: no two processMessage invocations overlap.
C2_NoOverlapIos ==
    platform = "ios" => Cardinality(IosInFlight) <= 1

\* C3: Android: with distinct ids and no cancellation the onWorkerMessage events
\* are emitted in the order in which their tasks were enqueued.
C3_FifoAndroid ==
    (platform = "android" /\ DistinctIds /\ NoCancellation)
        => InOrder(EmittedTasks, enqueued)

\* C3 witness: two tasks with distinct ids were enqueued, nothing was cancelled,
\* and both events have been emitted.
C3_Witness ==
    /\ platform = "android"
    /\ DistinctIds /\ NoCancellation
    /\ Len(emitted) >= 2

\* C4: iOS: with distinct ids and no cancellation the onWorkerMessage events are
\* emitted in the order in which their tasks were enqueued.
C4_FifoIos ==
    (platform = "ios" /\ DistinctIds /\ NoCancellation)
        => InOrder(EmittedTasks, enqueued)

WasEnqueued(h) == \E i \in 1..Len(enqueued) : enqueued[i] = h

\* C5: Android, under fair scheduling: every task that postMessage enqueued and
\* whose cancelled flag is never set eventually has an onWorkerMessage event, and
\* no task ever has more than one.
C5_EventuallyDelivered ==
    /\ \A h \in Handles :
          WasEnqueued(h) ~> (h \in Created /\ (Cancelled(h) \/ HasEvent(h)))
    /\ [](\A h \in Created : EventCount(h) <= 1)

UniqueId(h) == \A j \in Created : tasks[j].id = IdOf(h) => j = h

WorkerIdle ==
    /\ \A t \in Threads : pc[t] \in {"none", "idle"}
    /\ \A h \in Handles : bg[h] \in {"none", "done"}

\* C6: for a task whose id was enqueued once: while it waits in the pending queue
\* uncancelled, cancelTask(id) returns true; once cancelTask returned true for it
\* while it was still in the queue, no onWorkerMessage event is posted or emitted
\* for it, cancelTask returned true for it exactly once, and a further
\* cancelTask(id) returns false.
C6_CancelQueued ==
    \A h \in Created :
        UniqueId(h) =>
            /\ (InQueue(h) /\ ~Cancelled(h)) => CancelTaskResult(IdOf(h))
            /\ h \in cancelQueued =>
                  /\ ~HasEvent(h)
                  /\ h \notin PendingEvents
                  /\ cancelOk[h] = 1
                  /\ ~CancelTaskResult(IdOf(h))

\* C6 witness: a task was cancelled by cancelTask while queued, no cancelAllTasks
\* ever ran, and the worker loop has since taken it off the queue and gone idle.
C6_Witness ==
    \E h \in Created :
        /\ UniqueId(h)
        /\ h \in cancelQueued
        /\ ~InQueue(h)
        /\ clearing = <<>> /\ lastCount = -1
        /\ WorkerIdle

\* C7: Android, distinct ids: a task for which cancelTask returned true never has
\* an onWorkerMessage event emitted, result or error.
C7_CancelTrueNoEventAndroid ==
    (platform = "android" /\ DistinctIds)
        => \A h \in Created : cancelOk[h] >= 1 => ~HasEvent(h)

\* C8: iOS, distinct ids: a task for which cancelTask resolved true never has an
\* onWorkerMessage event emitted.
C8_CancelTrueNoEventIos ==
    (platform = "ios" /\ DistinctIds)
        => \A h \in Created : cancelOk[h] >= 1 => ~HasEvent(h)

RegistrySize == Cardinality({i \in AllIds : activeTasks[i] # NoTask})

\* C9: the count cancelAllTasks takes (Android: in its synchronized block,
\* resolved unchanged after taskQueue.clear(); iOS: in its block) is the number of
\* registry entries at that moment, and as long as nothing has been enqueued since
\* cancelAllTasks emptied the queue, getQueueSize returns 0.
C9_CancelAllCount ==
    /\ [][ /\ Len(clearing') > Len(clearing)
                => clearing'[Len(clearing')] = RegistrySize
           /\ Len(clearing') < Len(clearing)
                => \E i \in 1..Len(clearing) : lastCount' = clearing[i]
           /\ (HeadIs("cancelAll") /\ serialQueue' = Tail(serialQueue))
                => lastCount' = RegistrySize ]_vars
    /\ [](afterClear => GetQueueSizeResult = 0)

\* C9 witness: cancelAllTasks has returned 2 or more, and nothing was enqueued since.
C9_Witness == afterClear /\ lastCount >= 2

\* C10: no onWorkerMessage event is emitted for a task after a cancelAllTasks call
\* that counted it.
C10_CountedNoEvent ==
    [][emitted' # emitted => Head(mainQueue).task \notin counted]_vars

\* A cancelAllTasks call takes its count and flags the registry in this step
\* (Android: the synchronized block; iOS: the block on serialQueue).
CancelAllStep ==
    \/ Len(clearing') > Len(clearing)
    \/ HeadIs("cancelAll") /\ serialQueue' = Tail(serialQueue)

\* Tasks inside processMessage.
InProcessMessage ==
    {cur[t] : t \in AndroidInFlight} \cup IosInFlight

\* Tasks the worker loop has dequeued and not yet removed from the registry or
\* reported: inside processMessage, or just out of it.
Claimed ==
    {cur[t] : t \in {u \in Threads : pc[u] \in {"processing", "remove", "catch"}}}
        \cup {h \in Handles : bg[h] \in {"processing", "remove", "catch"}}

\* C11 as amended: a task with an id of its own that the worker loop has claimed
\* and that is not cancelled is still in the registry, so a cancelAllTasks call
\* that runs then counts it and sets its cancelled flag; on Android the worker's
\* check after processMessage then posts no event for a counted task.
C11_ClaimedCountedSuppressed ==
    [][ /\ CancelAllStep =>
              \A h \in Claimed :
                  (UniqueId(h) /\ ~Cancelled(h)) =>
                      /\ h \in ActiveValues
                      /\ h \in counted'
                      /\ tasks'[h].cancelled
           /\ \A t \in Threads :
                  (pc[t] \in {"send", "catch"} /\ pc'[t] = "finally" /\ cur[t] \in counted)
                      => mainQueue' = mainQueue ]_vars

\* C11 witness: Android, a task that cancelAllTasks counted after the worker had
\* claimed it has come out of processMessage and no event was posted for it.
C11_Witness ==
    /\ platform = "android"
    /\ \E h \in counted :
          /\ WasEnqueued(h)
          /\ ~InQueue(h)
          /\ cancelOk[h] = 0
          /\ ~HasEvent(h) /\ h \notin PendingEvents
          /\ \E t \in Threads : pc[t] = "finally" /\ cur[t] = h

\* C11 as stated: a task inside processMessage when cancelAllTasks runs is not
\* among the registry entries the call counts, and the call leaves its cancelled
\* flag alone, so that its outcome is still delivered.
C11_ClaimedNotCounted ==
    [][ CancelAllStep =>
            \A h \in InProcessMessage :
                /\ h \notin ActiveValues
                /\ tasks'[h].cancelled = tasks[h].cancelled ]_vars

\* A cancelTask(taskId) that finds no registry entry runs in this step (Android:
\* the call; iOS: its block on serialQueue).
CancelMissStep(taskId) ==
    /\ activeTasks[taskId] = NoTask
    /\ \/ CancelTask(taskId)
       \/ HeadIs("cancel") /\ Head(serialQueue).arg = taskId /\ IosCancelTaskBlock

\* Some cancelAllTasks call has taken its count.
CancelAllRan == clearing # <<>> \/ lastCount # -1

\* Frame part of C12: cancelTask with an id that has no registry entry resolves false
\* and leaves every task's cancelled flag, the registry and the pending queue as
\* they were; no cancelTask is recorded as successful for any task.
C12_CancelMissFrame ==
    [][ \A taskId \in AllIds :
            CancelMissStep(taskId) =>
                /\ ~CancelTaskResult(taskId)
                /\ tasks' = tasks
                /\ activeTasks' = activeTasks
                /\ taskQueue' = taskQueue
                /\ cancelOk' = cancelOk ]_vars

\* C12 witness: iOS, a task waits in the queue uncancelled and registered while
\* the block of a cancelTask with another, unregistered id is about to run.
C12_Witness ==
    /\ HeadIs("cancel")
    /\ activeTasks[Head(serialQueue).arg] = NoTask
    /\ \E h \in Created :
          /\ InQueue(h) /\ ~Cancelled(h)
          /\ activeTasks[IdOf(h)] = h
          /\ IdOf(h) # Head(serialQueue).arg

\* Liveness part of C12: under fair scheduling a task that was enqueued is
\* delivered unless its own cancelled flag gets set or a cancelAllTasks runs;
\* cancelTask calls that find no registry entry do not stand in its way.
C12_OtherTaskDelivered ==
    \A h \in Handles :
        WasEnqueued(h) ~> (CancelAllRan \/ (h \in Created /\ (HasEvent(h) \/ Cancelled(h))))

\* C12: cancelTask with an id that is not in the registry returns false and
\* changes neither the registry, nor the pending queue, nor any cancelled flag,
\* and a task enqueued earlier under another id is still processed and has its
\* event emitted (unless it is cancelled itself or cancelAllTasks runs).
C12_CancelMiss ==
    /\ C12_CancelMissFrame
    /\ C12_OtherTaskDelivered

\* C13: once an onWorkerMessage event, result or error, has been emitted for a
\* task whose id no other task carries, cancelTask with that id returns false.
C13_CancelAfterEventFalse ==
    \A h \in Created :
        (UniqueId(h) /\ HasEvent(h)) => ~CancelTaskResult(IdOf(h))

\* Tasks the worker loop holds: Android, the local task of a processNextTask that
\* has not returned; iOS, a processTask that has not finished or whose removal
\* block still waits on serialQueue.
HeldByWorker ==
    {cur[t] : t \in Threads} \cup {h \in Handles : bg[h] \notin {"none", "done"}}
        \cup {serialQueue[i].arg :
                i \in {j \in 1..Len(serialQueue) : serialQueue[j].kind = "remove"}}

\* C14: every task in the registry is in the pending queue (or on its way into it
\* inside postMessage) or is held by the worker loop; once the worker has finished
\* a claimed task, delivered or suppressed, the task is not in the registry.
C14_NoLeakedEntries ==
    \A h \in ActiveValues :
        InQueue(h) \/ h \in offering \/ h \in HeldByWorker

\* Events posted or emitted for task h.
AllEvents(h) ==
    EventCount(h) + Cardinality({i \in 1..Len(mainQueue) : mainQueue[i].task = h})

\* Android: whenever the worker thread is between two runs of its Runnable, the
\* Runnable is waiting in the looper for the next tick.
LoopAlive ==
    \A t \in Threads : (t = workerThread /\ pc[t] = "idle") => looper[t] >= 1

ErrorEvent(h) == [task |-> h, taskId |-> IdOf(h), kind |-> "error"]

PostDoneStep == enqueued' # enqueued

\* A worker tick looks at the head of the queue in this step.
DequeueStep ==
    \/ \E t \in Threads : pc[t] = "idle" /\ pc'[t] = "polled"
    \/ HeadIs("tick") /\ serialQueue' = Tail(serialQueue)

\* A cancelAllTasks call empties the queue in this step.
ClearStep ==
    \/ Len(clearing') < Len(clearing)
    \/ HeadIs("cancelAll") /\ serialQueue' = Tail(serialQueue)

\* C16: every postMessage raises what getQueueSize returns by exactly one, and
\* only a worker tick or cancelAllTasks changes it otherwise; so, as long as no
\* task has been taken off the queue and no cancelAllTasks has run, getQueueSize
\* returns the number N of postMessage calls made.
C16_QueueSizeCounts ==
    /\ [][ /\ PostDoneStep => GetQueueSizeResult' = GetQueueSizeResult + 1
           /\ ~(PostDoneStep \/ DequeueStep \/ ClearStep)
                 => GetQueueSizeResult' = GetQueueSizeResult ]_vars
    /\ []((taskQueue = enqueued /\ ~CancelAllRan) => GetQueueSizeResult = Len(enqueued))

\* C16 witness: iOS, MaxTasks postMessage calls have been made, no tick has taken
\* a task, no cancelAllTasks ran, and the block of getQueueSize is about to run.
C16_Witness ==
    /\ HeadIs("size")
    /\ Len(enqueued) = MaxTasks
    /\ taskQueue = enqueued
    /\ ~CancelAllRan

\* The pending queue is empty, getQueueSize returns 0 and isProcessing returns false.
Drained ==
    /\ taskQueue = <<>>
    /\ GetQueueSizeResult = 0
    /\ ~IsProcessingResult

\* C17: the postMessage calls of a behaviour are finitely many (at most MaxTasks);
\* if nothing is ever cancelled, then under fair scheduling of the worker loop
\* (processMessage terminates) the system reaches, and from then on stays in, a
\* state where the queue is empty, getQueueSize returns 0 and isProcessing
\* returns false.
C17_EventuallyDrained == []NoCancellation => <>[]Drained

\* C17 witness: MaxTasks tasks were enqueued, nothing was cancelled, every task
\* has had its event emitted, the worker is idle and the engine is drained.
C17_Witness ==
    /\ NoCancellation
    /\ Len(enqueued) = MaxTasks
    /\ Len(emitted) = MaxTasks
    /\ WorkerIdle
    /\ Drained

\* The task most recently put on the queue by postMessage.
LastEnqueued(q) == q[Len(q)]

Live == ActiveValues \cup {taskQueue[i] : i \in 1..Len(taskQueue)}

\* C19: no two distinct task records that are in the registry or the pending
\* queue at the same time carry the same id.
C19_LiveIdsUnique ==
    \A h1, h2 \in Live : IdOf(h1) = IdOf(h2) => h1 = h2

WasRegistered(h) ==
    IF platform = "android" THEN h \in Created ELSE WasEnqueued(h)

\* C21: no task record ever has more than one onWorkerMessage event, posted or
\* emitted; a task record that has left the pending queue (dequeued by a tick or
\* cleared by cancelAllTasks) is never in the queue again, no record stands in
\* the queue twice, and a record that has left the registry is never registered
\* again.
C21_NoRetryNoRequeue ==
    /\ [](\A h \in Created : AllEvents(h) <= 1)
    /\ [](\A i, j \in 1..Len(taskQueue) : taskQueue[i] = taskQueue[j] => i = j)
    /\ [][ \A h \in Created :
               /\ (WasEnqueued(h) /\ ~InQueue(h)) =>
                      \A i \in 1..Len(taskQueue') : taskQueue'[i] # h
               /\ (WasRegistered(h) /\ activeTasks[IdOf(h)] # h) =>
                      activeTasks'[IdOf(h)] # h ]_vars

\* C21 witness: a task whose processing failed has had its error event emitted
\* and the worker has gone idle again, and another task that was enqueued has
\* been cleared by cancelAllTasks.
C21_Witness ==
    \E h1, h2 \in Created :
        /\ h1 # h2
        /\ WasEnqueued(h1) /\ ~InQueue(h1)
        /\ \E i \in 1..Len(emitted) : emitted[i].task = h1 /\ emitted[i].kind = "error"
        /\ WasEnqueued(h2) /\ ~InQueue(h2) /\ h2 \in counted
        /\ WorkerIdle

\* Android: every caller operation that the bounds of the model leave room for
\* can take its next step now.
AndroidCallersCanRun ==
    /\ \A taskId \in AllIds : ENABLED CancelTask(taskId)
    /\ ENABLED GetQueueSize
    /\ ENABLED IsProcessing
    /\ (Len(tasks) < MaxTasks /\ PendingCalls < MaxCallers) =>
          \A taskId \in CallerIds \cup {NoId} : ENABLED PostMessagePut(taskId)
    /\ \A h \in offering : ENABLED PostMessageOffer(h)
    /\ PendingCalls < MaxCallers => ENABLED CancelAllSync
    /\ \A i \in 1..Len(clearing) : ENABLED CancelAllClear(i)

\* iOS: every call can submit its block, and the block at the head of
\* serialQueue, whichever operation it belongs to, can run now.
IosCallersCanRun ==
    /\ SerialRoom =>
          /\ \A taskId \in AllIds : ENABLED IosCancelTask(taskId)
          /\ ENABLED IosCancelAllTasks
          /\ ENABLED IosGetQueueSize
          /\ ENABLED IosIsProcessing
          /\ Len(tasks) < MaxTasks =>
                \A taskId \in CallerIds \cup {NoId} : ENABLED IosPostMessage(taskId)
    /\ HeadIs("post") => ENABLED IosPostMessageBlock
    /\ HeadIs("cancel") => ENABLED IosCancelTaskBlock
    /\ HeadIs("cancelAll") => ENABLED IosCancelAllTasksBlock
    /\ HeadIs("size") => ENABLED IosGetQueueSizeBlock
    /\ HeadIs("isProcessing") => ENABLED IosIsProcessingBlock

InTick(t) == pc[t] \in {"processing", "remove", "send", "catch", "finally"}

\* C23 as amended: Android: isProcessing() returns true whenever the worker is
\* executing processMessage for a claimed task, up to the finally block; the
\* finally block sets it to whether the pending queue is non-empty, so between
\* ticks it returns true exactly when the last tick that wrote the flag left
\* tasks queued, and a tick that finds the queue empty or pops a cancelled task
\* sets it to false; no other step changes it.
C23_IsProcessingAndroid ==
    /\ [](platform = "android" => \A t \in Threads : InTick(t) => IsProcessingResult)
    /\ [][ platform = "android" =>
             /\ \A t \in Threads :
                   /\ (pc[t] = "finally" /\ pc'[t] = "idle")
                         => IsProcessingResult' = (taskQueue # <<>>)
                   /\ (pc[t] = "polled" /\ pc'[t] = "idle") => ~IsProcessingResult'
                   /\ (pc[t] = "polled" /\ pc'[t] = "processing") => IsProcessingResult'
             /\ pc' = pc => IsProcessingResult' = IsProcessingResult ]_vars

\* C23 witness: Android, the worker is idle between two ticks after it has
\* processed a task, another task waits in the queue, and isProcessing() returns
\* true.
C23_Witness ==
    /\ platform = "android"
    /\ workerThread # 0
    /\ \A t \in Threads : pc[t] \in {"none", "idle"}
    /\ Len(emitted) + Len(mainQueue) >= 1
    /\ taskQueue # <<>>
    /\ IsProcessingResult

\* C23 as stated: Android: isProcessing() returns true if and only if the worker
\* is executing a claimed task, and false whenever it is idle between ticks.
C23_BusyIffProcessing ==
    platform = "android" => (IsProcessingResult <=> \E t \in Threads : InTick(t))

\* C24: iOS: whenever a claimed task is inside processMessage on the background
\* queue, isProcessing resolves true.
C24_BusyWhileInFlightIos ==
    platform = "ios" => (IosInFlight # {} => IsProcessingResult)

\* ---------------------------------------------------------------- C25
\* The arguments the native method must see for a wrapper call: the caller's own,
\* with postMessage's taskId undefined when the caller left it out.
PassedArgs(c) ==
    IF c.method = "postMessage"
        THEN <<c.args[1], IF Len(c.args) = 2 THEN c.args[2] ELSE JsUndefined>>
        ELSE c.args

\* C25: the wrapper is a transparent pass-through.  Every call of postMessage,
\* cancelTask, cancelAllTasks, getQueueSize or isProcessing makes exactly one call
\* of the native method of the same name, with the same arguments (taskId
\* undefined when omitted, empty strings unchanged), and when the wrapper's
\* promise has settled it has the resolved value or the rejection of that native
\* call.
C25_PassThrough ==
    \A i \in 1..Len(wrapperCalls) :
        LET c == wrapperCalls[i]
            made == {n \in 1..Len(nativeCalls) : nativeCalls[n].by = i}
        IN  /\ Cardinality(made) = 1
            /\ \A n \in made :
                   /\ nativeCalls[n].method = c.method
                   /\ nativeCalls[n].args = PassedArgs(c)
                   /\ c.outcome # Pending => c.outcome = nativeCalls[n].outcome

\* postMessage("") without a taskId, rejected by the native module, has settled.
C25_Witness ==
    \E i \in 1..Len(wrapperCalls) :
        /\ wrapperCalls[i].method = "postMessage"
        /\ wrapperCalls[i].args = <<"">>
        /\ wrapperCalls[i].outcome.kind = "reject"

\* ---------------------------------------------------------------- C26
\* C26: removeAllListeners() removes every listener registered before it through
\* addListener or onWorkerMessage, however many there are: once it has returned,
\* none of their subscriptions is registered with the emitter any more, so none
\* of them is called for a later event.
C26_RemoveAllRemovesAll == \A s \in swept : ~Active(s)

\* ---------------------------------------------------------------- C27
\* C27: the cleanup function returned by onWorkerMessage removes exactly the
\* subscription its call created.  A cleanup step leaves that subscription
\* unregistered and every other subscription as it was; a subscription that is
\* unregistered is never called again; and removing it a second time, by the
\* cleanup function or by removeListener / removeAllListeners finding it in
\* this.listeners, changes nothing: the cleanup function changes no state at
\* all, the other two change no subscription.
C27_CleanupRemovesItsOwn ==
    /\ [][ \A s \in 1..MaxSubs : Cleanup(s) =>
               /\ ~emitterSubs'[s].active
               /\ \A x \in Subs \ {s} : emitterSubs'[x] = emitterSubs[x]
               /\ ~Active(s) => UNCHANGED vars ]_vars
    /\ [][ \A s \in Subs : ~Active(s) => emitterSubs'[s] = emitterSubs[s] ]_vars
    /\ [][ ((RemoveListener \/ RemoveAllListeners) /\ listeners # NoSub /\ ~Active(listeners))
               => emitterSubs' = emitterSubs ]_vars

\* Two onWorkerMessage registrations; the first one's cleanup function ran between
\* two events, the second listener got both.
C27_Witness ==
    /\ Len(emitterSubs) = 2
    /\ \A s \in Subs : emitterSubs[s].via = "onWorkerMessage"
    /\ ~Active(1) /\ emitterSubs[1].heard = 1
    /\ Active(2) /\ emitterSubs[2].heard = 2

\* ---------------------------------------------------------------- C28
\* C28: Android.  Every task that cancelAllTasks removes from the pending queue
\* has its cancelled flag set and was counted by cancelAllTasks, also when a
\* postMessage runs at the same time: the step that empties the queue finds
\* only flagged, counted tasks in it.
C28_ClearedFlaggedAndCounted ==
    [][ platform = "android" =>
            \A i \in 1..MaxCallers :
                CancelAllClear(i) =>
                    \A k \in 1..Len(taskQueue) :
                        /\ Cancelled(taskQueue[k])
                        /\ taskQueue[k] \in counted ]_vars

\* ---------------------------------------------------------------- C29
\* A cancelTask call returns true in this step.
CancelTrueStep == cancelOk' # cancelOk

\* C29: cancelTask never removes a task from the pending queue.  The step in
\* which cancelTask(id) returns true leaves the queue, contents and order, and
\* what getQueueSize returns as they were; and a task cancelled while queued
\* stays in the queue, counted by getQueueSize, until a worker tick dequeues it
\* (or cancelAllTasks empties the whole queue).
C29_CancelLeavesQueue ==
    /\ [][ CancelTrueStep =>
               /\ taskQueue' = taskQueue
               /\ GetQueueSizeResult' = GetQueueSizeResult ]_vars
    /\ [][ \A h \in cancelQueued :
               (InQueue(h) /\ (\A i \in 1..Len(taskQueue') : taskQueue'[i] # h))
                   => (DequeueStep \/ ClearStep) ]_vars
    /\ [](\A h \in cancelQueued : InQueue(h) => GetQueueSizeResult >= 1)

\* cancelTask returned true for the task at the head of a queue of two, which is
\* still there, flagged, with getQueueSize returning 2.
C29_Witness ==
    /\ Len(taskQueue) = 2
    /\ taskQueue[1] \in cancelQueued
    /\ Cancelled(taskQueue[1])
    /\ GetQueueSizeResult = 2

\* ---------------------------------------------------------------- C30
\* C30: a task whose cancelled flag was set before the worker loop dequeued it
\* is never passed to processMessage.  The tick that finds the flag set drops the
\* task: it starts no processing, posts and emits no event, and leaves the loop
\* running (Android: the Runnable is posted again; iOS: the timer stays
\* scheduled) with the rest of the queue in place for the later ticks.  A task
\* that cancelTask flagged while it was queued is never inside processMessage
\* and never has an event.
C30_FlaggedNeverProcessed ==
    /\ [][ \A t \in Threads :
               (pc[t] = "polled" /\ cur[t] # NoTask /\ Cancelled(cur[t]) /\ pc'[t] # "polled") =>
                   /\ pc'[t] = "idle"
                   /\ mainQueue' = mainQueue /\ emitted' = emitted
                   /\ taskQueue' = taskQueue
                   /\ workerThread # 0 => looper'[workerThread] = looper[workerThread] + 1 ]_vars
    /\ [][ (HeadIs("tick") /\ serialQueue' = Tail(serialQueue)
               /\ taskQueue # <<>> /\ Cancelled(Head(taskQueue))) =>
                   /\ bg' = bg
                   /\ mainQueue' = mainQueue /\ emitted' = emitted
                   /\ taskQueue' = Tail(taskQueue)
                   /\ processingTimer' ]_vars
    /\ [](\A h \in cancelQueued :
              /\ h \notin InProcessMessage
              /\ h \notin Claimed
              /\ AllEvents(h) = 0)
    /\ []LoopAlive

\* Of two queued tasks the first was cancelled while queued and has been dropped
\* by a tick (no cancelAllTasks ran); the second has since been processed and its
\* event emitted.
C30_Witness ==
    /\ Len(enqueued) = 2
    /\ enqueued[1] \in cancelQueued
    /\ ~InQueue(enqueued[1])
    /\ \A t \in Threads : cur[t] # enqueued[1]
    /\ ~CancelAllRan
    /\ HasEvent(enqueued[2])

\* ---------------------------------------------------------------- C31
\* Thread t leaves processNextTask in this step.
TickEnds(t) == pc[t] \in {"polled", "finally"} /\ pc'[t] = "idle"

\* C31 as stated: Android.  A tick that finds the pending queue empty sets
\* isProcessing to false, and every tick that popped a task, processed or
\* already cancelled, ends with the flag equal to (pending queue is non-empty).
C31_FlagFollowsQueue ==
    [][ platform = "android" =>
            \A t \in Threads :
                TickEnds(t) =>
                    IF cur[t] = NoTask THEN ~isProcessing'
                                       ELSE isProcessing' = (taskQueue # <<>>) ]_vars

\* C31, amended: Android.  A tick that finds the pending queue empty sets
\* isProcessing to false; a tick that processed a task ends with the flag equal
\* to (pending queue is non-empty); a tick that popped an already-cancelled task
\* sets the flag to false, also while other tasks remain queued.
C31_FlagAtTickEnd ==
    [][ platform = "android" =>
            \A t \in Threads :
                /\ (pc[t] = "polled" /\ pc'[t] = "idle" /\ cur[t] = NoTask) => ~isProcessing'
                /\ (pc[t] = "finally" /\ pc'[t] = "idle") => isProcessing' = (taskQueue # <<>>)
                /\ (pc[t] = "polled" /\ pc'[t] = "idle" /\ cur[t] # NoTask) =>
                       /\ Cancelled(cur[t])
                       /\ ~isProcessing' ]_vars

\* A tick has popped a task that cancelTask flagged while it was queued, and
\* another task is still in the queue.
C31_Witness ==
    /\ platform = "android"
    /\ \E t \in Threads :
           /\ pc[t] = "polled"
           /\ cur[t] \in cancelQueued
    /\ taskQueue # <<>>

\* ---------------------------------------------------------------- C32
\* postMessage puts task h into the registry in this step (Android: the
\* synchronized block; iOS: the block on serialQueue).
RegisterStep(h) ==
    IF platform = "android" THEN Len(tasks) = h - 1 /\ Len(tasks') = h
                            ELSE enqueued' = Append(enqueued, h)

\* The registered tasks that carry the id of h.
SameId(h) == {g \in Created : WasRegistered(g) /\ IdOf(g) = IdOf(h)}

\* C32: a postMessage with the id of a task that is still queued or processing
\* overwrites the registry entry with the new task, and leaves the earlier task
\* where it is: the queue only grows at its tail by the new task, so both
\* records are in the pending queue.  A cancelTask(id) that follows flags
\* exactly the registry entry, the task of the latest postMessage with that id
\* (on iOS, where registering and enqueueing are one step, the most recently
\* enqueued one); every earlier task with the id keeps its flag and its place,
\* and every event carries the id of its task, the shared id included.
C32_ReusedIdOverwrites ==
    /\ [][ \A h \in Handles :
               RegisterStep(h) =>
                   /\ activeTasks'[tasks'[h].id] = h
                   /\ SubSeq(taskQueue', 1, Len(taskQueue)) = taskQueue
                   /\ \A g \in Created \ {h} : tasks'[g] = tasks[g] ]_vars
    /\ [][ PostDoneStep =>
               taskQueue' = Append(taskQueue, LastEnqueued(enqueued')) ]_vars
    /\ [][ CancelTrueStep =>
               \E h \in Created :
                   /\ activeTasks[IdOf(h)] = h
                   /\ Cancelled(h)' /\ cancelOk'[h] # cancelOk[h]
                   /\ \A g \in Created \ {h} : tasks'[g] = tasks[g]
                   /\ \A g \in SameId(h) : g <= h
                   /\ platform = "ios" =>
                          \A i \in 1..Len(enqueued) :
                              IdOf(enqueued[i]) = IdOf(h) => enqueued[i] <= h
                   /\ taskQueue' = taskQueue ]_vars
    /\ [](\A i \in 1..Len(emitted) : emitted[i].taskId = IdOf(emitted[i].task))

\* Two tasks were posted with the same id; cancelTask(id) cancelled the later one
\* while it was queued, and the earlier one was processed and its event emitted
\* under that id.
C32_Witness ==
    \E g, h \in Created :
        /\ enqueued = <<g, h>>
        /\ IdOf(g) = IdOf(h)
        /\ h \in cancelQueued
        /\ Cancelled(h)
        /\ ~Cancelled(g)
        /\ \E i \in 1..Len(emitted) : emitted[i].task = g /\ emitted[i].taskId = IdOf(h)

\* ---------------------------------------------------------------- C33
\* The tasks with this id that are queued or inside processMessage, not flagged.
LiveWithId(id) ==
    {h \in Created : /\ IdOf(h) = id
                     /\ ~Cancelled(h)
                     /\ (InQueue(h) \/ h \in InProcessMessage)}

\* cancelTask(id) returns false only if no unflagged task with the id is queued
\* or being processed.
NoFalseForLiveId ==
    \A id \in AllIds : ~CancelTaskResult(id) => LiveWithId(id) = {}

\* A step of the worker: of a thread inside run() / processNextTask (Android), of
\* processTask on backgroundQueue or of a tick or removal block (iOS).
WorkerStep ==
    \/ pc' # pc
    \/ bg' # bg
    \/ (HeadIs("tick") \/ HeadIs("remove")) /\ serialQueue' = Tail(serialQueue)

\* A step of the worker, on a task it finished or skipped, leaves the registry
\* entry of a queued, unflagged task in place.
WorkerKeepsNewerEntry ==
    \A h \in Created :
        (/\ activeTasks[IdOf(h)] = h
         /\ InQueue(h) /\ ~Cancelled(h)
         /\ \E i \in 1..Len(taskQueue') : taskQueue'[i] = h
         /\ WorkerStep)
            => activeTasks'[IdOf(h)] = h

\* C33: cancelTask(id) returns false only if no task with that id is queued or
\* being processed with its flag unset, also when ids are reused: the worker
\* finishing or skipping an older task with the id never removes the registry
\* entry of a newer task that is still pending.
C33_FalseOnlyIfNoneLive ==
    /\ []NoFalseForLiveId
    /\ [][WorkerKeepsNewerEntry]_vars

\* ---------------------------------------------------------------- C34
\* C34: every emitted onWorkerMessage event, for a task that succeeded and for
\* one that failed alike, carries the taskId of its task, the measured
\* processingTime and a completion timestamp.
C34_EventCarriesTimes ==
    \A i \in 1..Len(emitted) :
        LET params == Params(emitted[i])
        IN  /\ {"taskId", "processingTime", "timestamp"} \subseteq DOMAIN params
            /\ params["taskId"] = IdOf(emitted[i].task)
            /\ params["processingTime"] = "measured"

\* ---------------------------------------------------------------- C35
\* The events emitted since stopWorkerThread ran.
EmittedAfterStop == {i \in 1..Len(emitted) : i > stopped.emitted}

\* C35: Android.  When stopWorkerThread has run, the pending queue and the
\* registry are empty and isProcessing is false, and from then on no
\* onWorkerMessage event is emitted for a task that was enqueued before the
\* stop, a task that was being processed when the stop happened included.
C35_NothingAfterDestroy ==
    /\ [][ (~stopped.ran /\ stopped'.ran) =>
               /\ taskQueue' = <<>>
               /\ activeTasks' = EmptyRegistry
               /\ ~isProcessing' ]_vars
    /\ [](stopped.ran => \A i \in EmittedAfterStop : emitted[i].task \notin stopped.tasks)

====
